---- MODULE Spec2Model ----
(***************************************************************************)
(* Model of the CENACE demand ingestion pipeline of                        *)
(* pages/1_Demanda_CENACE.py: range batching, response parsing, the disk   *)
(* cache, the per-batch fetch, the assembly of batches and the quality     *)
(* report.                                                                 *)
(*                                                                         *)
(* Instants (naive datetimes) are integers: minutes since 2025-01-01 00:00.*)
(* A DataFrame with columns timestamp, demand_mw is a sequence of records  *)
(* [index, timestamp, demand_mw], index being the row label.  A parquet    *)
(* file written with index=False is a sequence of [timestamp, demand_mw].  *)
(* Python's None is the empty set, and Some(x) a present value.            *)
(***************************************************************************)
EXTENDS Integers, Sequences, FiniteSets, TLC

VARIABLES cache, last, prev, ncalls, args, result

vars == <<cache, last, prev, ncalls, args, result>>

----------------------------------------------------------------------------
(* Units of datetime / timedelta *)

Hour == 60

Day == 24 * Hour

HalfDay == 12 * Hour

None == {}

Some(x) == {x}

(* float("nan"): a demand value that is neither negative nor a number *)
NaN == 999999

Min(x, y) == IF x < y THEN x ELSE y

EmptyFrame == <<>>

Row(i, ts, v) == [index |-> i, timestamp |-> ts, demand_mw |-> v]

Point(ts, v) == [timestamp |-> ts, demand_mw |-> v]

(* the columns of a frame, without the row labels *)
points(df) == [i \in 1..Len(df) |-> Point(df[i].timestamp, df[i].demand_mw)]

(* pd.DataFrame(rows): a fresh RangeIndex 0..n-1 *)
DataFrame(pts) == [i \in 1..Len(pts) |-> Row(i - 1, pts[i].timestamp, pts[i].demand_mw)]

(* df.reset_index(drop=True) *)
reset_index(df) == DataFrame(points(df))

----------------------------------------------------------------------------
(* _date_range_batches *)

batch_end_unclamped(cur, end_dt, batch_days) == cur + batch_days * Day

batch_end(cur, end_dt, batch_days) == Min(cur + batch_days * Day, end_dt)

RECURSIVE batches_from(_, _, _)
batches_from(cur, end_dt, batch_days) ==
    IF cur < end_dt
    THEN LET nxt == batch_end(cur, end_dt, batch_days)
         IN  <<<<cur, nxt>>>> \o batches_from(nxt, end_dt, batch_days)
    ELSE <<>>

date_range_batches(start_dt, end_dt, batch_days) ==
    batches_from(start_dt, end_dt, batch_days)

----------------------------------------------------------------------------
(* DataFrame operations used by the pipeline *)

RECURSIVE InsertSorted(_, _)
InsertSorted(s, r) ==
    IF s = <<>> THEN <<r>>
    ELSE IF s[Len(s)].timestamp <= r.timestamp THEN Append(s, r)
    ELSE Append(InsertSorted(SubSeq(s, 1, Len(s) - 1), r), s[Len(s)])

RECURSIVE sort_values(_)
sort_values(df) ==
    IF df = <<>> THEN <<>>
    ELSE InsertSorted(sort_values(SubSeq(df, 1, Len(df) - 1)), df[Len(df)])

(* df.drop_duplicates(subset=["timestamp"]): the first row of each timestamp stays *)
drop_duplicates_all_columns(df) ==
    LET marked == [i \in 1..Len(df) |->
                     [row |-> df[i], first |-> \A j \in 1..(i - 1) : df[j] # df[i]]]
        kept == SelectSeq(marked, LAMBDA x : x.first)
    IN  [i \in 1..Len(kept) |-> kept[i].row]

drop_duplicates(df) ==
    LET marked == [i \in 1..Len(df) |->
                     [row |-> df[i],
                      first |-> \A j \in 1..(i - 1) : df[j].timestamp # df[i].timestamp]]
        kept == SelectSeq(marked, LAMBDA x : x.first)
    IN  [i \in 1..Len(kept) |-> kept[i].row]

RECURSIVE concat_rows(_)
concat_rows(parts) ==
    IF parts = <<>> THEN <<>> ELSE Head(parts) \o concat_rows(Tail(parts))

(* pd.concat(parts, ignore_index=True) *)
concat(parts) == reset_index(concat_rows(parts))

(* df[(df["timestamp"] >= start_dt) & (df["timestamp"] < end_dt)] *)
range_filter_inclusive(df, start_dt, end_dt) ==
    SelectSeq(df, LAMBDA r : r.timestamp >= start_dt /\ r.timestamp <= end_dt)

range_filter(df, start_dt, end_dt) ==
    SelectSeq(df, LAMBDA r : r.timestamp >= start_dt /\ r.timestamp < end_dt)

----------------------------------------------------------------------------
(* _parse_cenace_response *)

(* datetime.strptime(fecha, "%Y-%m-%d"): the dates the model's responses use *)
FechaTable ==
    ("2025-01-01" :> 0) @@ ("2025-01-02" :> 1) @@ ("2025-01-03" :> 2)

strptime(fecha) ==
    IF fecha \in DOMAIN FechaTable
    THEN [ok |-> TRUE, val |-> FechaTable[fecha] * Day]
    ELSE [ok |-> FALSE, val |-> 0]

(* int(x) on the hour strings the model's responses use *)
IntTable ==
    ("1" :> 1) @@ ("2" :> 2) @@ ("13" :> 13) @@ ("24" :> 24)

to_int(x) ==
    IF x \in DOMAIN IntTable
    THEN [ok |-> TRUE, val |-> IntTable[x]]
    ELSE [ok |-> FALSE, val |-> 0]

(* float(x) on the demand strings the model's responses use *)
FloatTable ==
    ("100.0" :> 100) @@ ("90.0" :> 90) @@ ("-5.0" :> -5) @@ ("nan" :> NaN)

to_float(x) ==
    IF x \in DOMAIN FloatTable
    THEN [ok |-> TRUE, val |-> FloatTable[x]]
    ELSE [ok |-> FALSE, val |-> 0]

(* r.get(key, default) *)
get(r, key, default) == IF key \in DOMAIN r THEN r[key] ELSE default

(* One iteration of the loop over resultados.  int(r.get("hora", 1)) is      *)
(* evaluated before the try block, so its failure leaves the loop ("raise");*)
(* a failure of strptime or float is caught and the record skipped.  The    *)
(* defaults 1 and None are written "1" and "None": int(1) = int("1"), and   *)
(* float(None) fails as float("None") does.                                 *)
parse_record(r) ==
    LET fecha == get(r, "fecha", "")
        hora == to_int(get(r, "hora", "1"))
        demanda == get(r, "demanda", "None")
        ts == strptime(fecha)
        demand_val == to_float(demanda)
    IN  IF ~hora.ok THEN [kind |-> "raise", row |-> Point(0, 0)]
        ELSE IF ~ts.ok \/ ~demand_val.ok THEN [kind |-> "skip", row |-> Point(0, 0)]
        ELSE [kind |-> "row",
              row |-> Point(ts.val + (hora.val - 1) * Hour, demand_val.val)]

parse_cenace_response(data) ==
    IF "Resultados" \notin DOMAIN data THEN [raised |-> TRUE, df |-> EmptyFrame]
    ELSE LET resultados == data["Resultados"]
             parsed == [i \in 1..Len(resultados) |-> parse_record(resultados[i])]
             good == SelectSeq(parsed, LAMBDA p : p.kind = "row")
             rows == [i \in 1..Len(good) |-> good[i].row]
         IN  IF \E i \in 1..Len(parsed) : parsed[i].kind = "raise"
             THEN [raised |-> TRUE, df |-> EmptyFrame]
             ELSE [raised |-> FALSE, df |-> reset_index(sort_values(DataFrame(rows)))]

----------------------------------------------------------------------------
(* quality_report *)

GapTolerance == 65

(* df["demand_mw"].isna().sum() *)
nan_count(df) == Cardinality({i \in 1..Len(df) : df[i].demand_mw = NaN})

(* (df["demand_mw"] < 0).sum() *)
negative_count(df) == Cardinality({i \in 1..Len(df) : df[i].demand_mw < 0})

(* df["timestamp"].duplicated().sum() *)
duplicated_count(df) ==
    Cardinality({i \in 1..Len(df) : \E j \in 1..(i - 1) : df[j].timestamp = df[i].timestamp})

(* diffs > pd.Timedelta(minutes=65) *)
is_gap_at_60(diff) == diff > Hour

is_gap(diff) == diff > GapTolerance

time_gap_count(df) ==
    Cardinality({i \in 2..Len(df) : is_gap(df[i].timestamp - df[i - 1].timestamp)})

quality_report(df) ==
    IF df = EmptyFrame
    THEN [rows |-> 0, nan_values |-> None, negatives |-> None,
          duplicates |-> None, time_gaps |-> None]
    ELSE [rows |-> Len(df),
          nan_values |-> Some(nan_count(df)),
          negatives |-> Some(negative_count(df)),
          duplicates |-> Some(duplicated_count(df)),
          time_gaps |-> Some(time_gap_count(df))]

----------------------------------------------------------------------------
(* Disk cache: the files of CACHE_DIR.  DOMAIN cache is the set of existing *)
(* paths; a file is readable (read_parquet returns its frame) or corrupt    *)
(* (read_parquet raises).  writer is history: the call that wrote the file. *)

(* start_dt.strftime("%Y%m%d"): the time of day is not part of the text *)
DateTable ==
    (0 :> "20250101") @@ (1 :> "20250102") @@ (2 :> "20250103") @@ (3 :> "20250104")

strftime(dt) == DateTable[dt \div Day]

cache_path(system, start_dt, end_dt) ==
    <<"demanda", system, strftime(start_dt), strftime(end_dt)>>

exists(c, path) == path \in DOMAIN c

readable(c, path) == exists(c, path) /\ c[path].readable

(* df.to_parquet(cache_file, index=False) *)
to_parquet_truncated(df) == SubSeq(points(df), 1, Len(df) - 1)

to_parquet(df) == points(df)

(* pd.read_parquet(cache_file) *)
read_parquet(file) == DataFrame(file.table)

put(c, path, file) == [p \in DOMAIN c \cup {path} |-> IF p = path THEN file ELSE c[p]]

(* The outcome of to_parquet: "ok" writes the file, "fail" raises before   *)
(* anything is written, "partial" raises leaving a file that does not read.*)
write_cache(c, path, df, writer, outcome) ==
    CASE outcome = "ok" ->
           put(c, path, [readable |-> TRUE, table |-> to_parquet(df), writer |-> writer])
      [] outcome = "partial" ->
           put(c, path, [readable |-> FALSE, table |-> <<>>, writer |-> writer])
      [] OTHER -> c

----------------------------------------------------------------------------
(* fetch_cenace.  env is what the outside does during the call:            *)
(*   get1   "ok" | "ssl" (SSLError) | "error" (timeout, connection error)  *)
(*   get2   "ok" | "error": the retry with verify=False                    *)
(*   status the status code of the response                                *)
(*   decodes, data: whether r.json() returns, and what                     *)
(*   write  the outcome of to_parquet                                      *)
(* The value is the call's result: raised, the frame returned, the number  *)
(* of requests sent, the branch taken and the cache afterwards.            *)

FetchResult(raised, df, net, outcome, c) ==
    [raised |-> raised, df |-> df, net |-> net, outcome |-> outcome, cache |-> c]

cache_hit_never(c, path) == FALSE

cache_hit(c, path) == readable(c, path)

persist_nonempty(c, path, df, writer, outcome) ==
    IF df = EmptyFrame THEN c ELSE write_cache(c, path, df, writer, outcome)

persist(c, path, df, writer, outcome) == write_cache(c, path, df, writer, outcome)

fetch_cenace(system, start_dt, end_dt, env, c) ==
    LET cache_file == cache_path(system, start_dt, end_dt)
        net == IF env.get1 = "ssl" THEN 2 ELSE 1
        parsed == parse_cenace_response(env.data)
        df == range_filter(parsed.df, start_dt, end_dt)
    IN  IF cache_hit(c, cache_file)
        THEN FetchResult(FALSE, read_parquet(c[cache_file]), 0, "hit", c)
        ELSE IF env.get1 = "error"
        THEN FetchResult(TRUE, EmptyFrame, 1, "transport", c)
        ELSE IF env.get1 = "ssl" /\ env.get2 = "error"
        THEN FetchResult(TRUE, EmptyFrame, 2, "transport", c)
        ELSE IF env.status # 200
        THEN FetchResult(FALSE, EmptyFrame, net, "status", c)
        ELSE IF ~env.decodes
        THEN FetchResult(FALSE, EmptyFrame, net, "json", c)
        ELSE IF parsed.raised
        THEN FetchResult(FALSE, EmptyFrame, net, "parse", c)
        ELSE FetchResult(FALSE, df, net, "ok",
                         persist(c, cache_file, df, <<system, start_dt, end_dt>>, env.write))

(* What one call of fetch_cenace did, for the record of the operation *)
FileAt(c, path) == IF exists(c, path) THEN Some(c[path]) ELSE None

CallLog(system, start_dt, end_dt, env, c, r) ==
    LET path == cache_path(system, start_dt, end_dt)
    IN  [system |-> system, a |-> start_dt, b |-> end_dt,
         raised |-> r.raised, df |-> r.df, net |-> r.net, outcome |-> r.outcome,
         before |-> FileAt(c, path), after |-> FileAt(r.cache, path),
         changed |-> r.cache # c, write |-> env.write]

----------------------------------------------------------------------------
(* load_demand *)

(* The loop over the batches: a call that raises ends it *)
RECURSIVE fetch_batches(_, _, _, _, _)
fetch_batches(system, batches, envs, c, log) ==
    IF batches = <<>> THEN [raised |-> FALSE, cache |-> c, log |-> log]
    ELSE LET a == Head(batches)[1]
             b == Head(batches)[2]
             r == fetch_cenace(system, a, b, Head(envs), c)
             entry == CallLog(system, a, b, Head(envs), c, r)
         IN  IF r.raised
             THEN [raised |-> TRUE, cache |-> r.cache, log |-> Append(log, entry)]
             ELSE fetch_batches(system, Tail(batches), Tail(envs), r.cache, Append(log, entry))

merge(df) == reset_index(sort_values(drop_duplicates(df)))

load_demand(system, start_dt, end_dt, batch_days, envs, c) ==
    LET batches == date_range_batches(start_dt, end_dt, batch_days)
        run == fetch_batches(system, batches, envs, c, <<>>)
        fetched == [i \in 1..Len(run.log) |-> run.log[i].df]
        parts == SelectSeq(fetched, LAMBDA d : d # EmptyFrame)
    IN  [raised |-> run.raised,
         df |-> IF run.raised \/ parts = <<>> THEN EmptyFrame ELSE merge(concat(parts)),
         cache |-> run.cache, log |-> run.log, parts |-> parts,
         batches |-> batches]

----------------------------------------------------------------------------
(* Inputs of the model *)

MaxCalls == 2

MaxFetchCalls == 2

MaxLoadCalls == 2

MaxHalfDays == 6

MaxBatchDays == 3

MaxRecords == 3

MaxRows == 3

(* ZONAS *)
Systems == {"SIN", "BCA"}

(* (start_dt, end_dt) of the calls: midnights and noons of three days *)
Ranges ==
    { <<0, Day>>, <<HalfDay, Day + HalfDay>>, <<Day, 2 * Day>>,
      <<0, 2 * Day>>, <<HalfDay, Day>> }

(* batch_days of load_demand: one day, and the default *)
BatchDaysChoices == {1, 7}

Rec(fecha, hora, demanda) == [fecha |-> fecha, hora |-> hora, demanda |-> demanda]

(* A response with the hours 2025-01-01 00:00, 2025-01-02 00:00 and         *)
(* 2025-01-02 12:00, whatever range was asked for, not in time order        *)
Payload(demanda) ==
    [Resultados |-> << Rec("2025-01-02", "13", demanda),
                       Rec("2025-01-01", "1", demanda),
                       Rec("2025-01-02", "1", demanda) >>]

NoData == [Resultados |-> <<>>]

Env(get1, get2, status, decodes, data, write) ==
    [get1 |-> get1, get2 |-> get2, status |-> status, decodes |-> decodes,
     data |-> data, write |-> write]

Envs ==
    { Env("error", "ok", 0, FALSE, NoData, "ok"),
      Env("ssl", "error", 0, FALSE, NoData, "ok"),
      Env("ssl", "ok", 200, TRUE, Payload("100.0"), "ok"),
      Env("ok", "ok", 500, TRUE, NoData, "ok"),
      Env("ok", "ok", 200, FALSE, NoData, "ok"),
      Env("ok", "ok", 200, TRUE, [d |-> "[]"], "ok"),
      Env("ok", "ok", 200, TRUE, [Resultados |-> <<Rec("2025-01-01", "x", "100.0")>>], "ok") }
    \cup { Env("ok", "ok", 200, TRUE, Payload(v), w) :
             v \in {"100.0", "90.0"}, w \in {"ok", "fail", "partial"} }

(* The calls of load_demand alone: a two-day range by days and in one      *)
(* batch, and a range from noon to noon                                    *)
LoadArgs ==
    { <<0, 2 * Day, 1>>, <<0, 2 * Day, 7>>, <<HalfDay, Day + HalfDay, 1>> }

LoadEnvs ==
    { Env("error", "ok", 0, FALSE, NoData, "ok"),
      Env("ssl", "error", 0, FALSE, NoData, "ok"),
      Env("ssl", "ok", 200, TRUE, Payload("100.0"), "ok"),
      Env("ok", "ok", 500, TRUE, NoData, "ok"),
      Env("ok", "ok", 200, TRUE, [d |-> "[]"], "ok"),
      Env("ok", "ok", 200, TRUE, Payload("90.0"), "ok"),
      Env("ok", "ok", 200, TRUE, Payload("100.0"), "fail"),
      Env("ok", "ok", 200, TRUE, Payload("100.0"), "partial") }

(* Inputs of _date_range_batches *)
BatchTimes == {k * HalfDay : k \in 0..MaxHalfDays}

(* Inputs of _parse_cenace_response *)
RecordPool ==
    { Rec("2025-01-01", "1", "100.0"),
      Rec("2025-01-01", "24", "90.0"),
      Rec("2025-01-02", "2", "abc"),
      [fecha |-> "2025-01-02", hora |-> "2"],
      Rec("01/02/2025", "1", "100.0"),
      Rec("2025-01-01", "x", "100.0"),
      [fecha |-> "2025-01-02", demanda |-> "-5.0"],
      Rec("2025-01-03", "13", "nan") }

SeqsUpTo(S, n) == UNION {[1..k -> S] : k \in 0..n}

ParseInputs ==
    {[d |-> "[]"]} \cup {[Resultados |-> rs] : rs \in SeqsUpTo(RecordPool, MaxRecords)}

(* Inputs of quality_report *)
QualityTimes == {0, 60, 125, 191}

QualityValues == {100, -5, NaN}

QualityInputs ==
    {DataFrame(pts) :
       pts \in SeqsUpTo({Point(t, v) : t \in QualityTimes, v \in QualityValues}, MaxRows)}

----------------------------------------------------------------------------
(* State *)

EmptyCache == [p \in {} |-> None]

NoOp ==
    [op |-> "none", system |-> "", a |-> 0, b |-> 0, batch_days |-> 0,
     raised |-> FALSE, df |-> EmptyFrame, net |-> 0, outcome |-> "none", log |-> <<>>,
     warm |-> FALSE, batches |-> <<>>, parts |-> <<>>]

Summary(l) ==
    [op |-> l.op, system |-> l.system, a |-> l.a, b |-> l.b,
     batch_days |-> l.batch_days, raised |-> l.raised, df |-> l.df, outcome |-> l.outcome]

RECURSIVE SumNet(_)
SumNet(log) == IF log = <<>> THEN 0 ELSE Head(log).net + SumNet(Tail(log))

Idle ==
    /\ cache = EmptyCache
    /\ last = NoOp
    /\ prev = Summary(NoOp)
    /\ ncalls = 0

Init ==
    /\ Idle
    /\ args = None
    /\ result = None

(* A caller calls fetch_cenace(system, a, b) *)
Fetch(system, a, b, env) ==
    \E r \in {fetch_cenace(system, a, b, env, cache)} :
        /\ ncalls' = ncalls + 1
        /\ cache' = r.cache
        /\ prev' = Summary(last)
        /\ last' = [op |-> "fetch", system |-> system, a |-> a, b |-> b, batch_days |-> 0,
                    raised |-> r.raised, df |-> r.df, net |-> r.net, outcome |-> r.outcome,
                    log |-> <<CallLog(system, a, b, env, cache, r)>>,
                    warm |-> readable(cache, cache_path(system, a, b)),
                    batches |-> <<<<a, b>>>>,
                    parts |-> IF r.df = EmptyFrame THEN <<>> ELSE <<r.df>>]
        /\ UNCHANGED <<args, result>>

(* A caller calls load_demand(system, a, b, batch_days) *)
Load(system, a, b, batch_days, envs) ==
    \E r \in {load_demand(system, a, b, batch_days, envs, cache)} :
        /\ ncalls' = ncalls + 1
        /\ cache' = r.cache
        /\ prev' = Summary(last)
        /\ last' = [op |-> "load", system |-> system, a |-> a, b |-> b,
                    batch_days |-> batch_days,
                    raised |-> r.raised, df |-> r.df, net |-> SumNet(r.log), outcome |-> "load",
                    log |-> r.log,
                    warm |-> \A i \in 1..Len(r.batches) :
                               readable(cache, cache_path(system, r.batches[i][1], r.batches[i][2])),
                    batches |-> r.batches, parts |-> r.parts]
        /\ UNCHANGED <<args, result>>

FetchCall ==
    /\ ncalls < MaxCalls
    /\ \E system \in Systems, rg \in Ranges, env \in Envs : Fetch(system, rg[1], rg[2], env)

LoadCall ==
    /\ ncalls < MaxCalls
    /\ \E system \in Systems, rg \in Ranges, batch_days \in BatchDaysChoices :
         \E envs \in [1..Len(date_range_batches(rg[1], rg[2], batch_days)) -> Envs] :
           Load(system, rg[1], rg[2], batch_days, envs)

Next == FetchCall \/ LoadCall

Spec == Init /\ [][Next]_vars

(* The calls of fetch_cenace alone, one more of them in a row *)
FetchOnlyCall ==
    /\ ncalls < MaxFetchCalls
    /\ \E system \in Systems, rg \in Ranges, env \in Envs : Fetch(system, rg[1], rg[2], env)

SpecFetch == Init /\ [][FetchOnlyCall]_vars

(* The calls of load_demand alone, one more of them in a row *)
LoadOnlyCall ==
    /\ ncalls < MaxLoadCalls
    /\ \E system \in Systems, la \in LoadArgs :
         \E envs \in [1..Len(date_range_batches(la[1], la[2], la[3])) -> LoadEnvs] :
           Load(system, la[1], la[2], la[3], envs)

SpecLoad == Init /\ [][LoadOnlyCall]_vars

----------------------------------------------------------------------------
(* The pure functions, each applied to inputs drawn from a bounded set *)

InitBatches ==
    /\ Idle
    /\ args \in [start : BatchTimes, end : BatchTimes, batch_days : 1..MaxBatchDays]
    /\ result = None

RunBatches ==
    /\ result = None
    /\ result' = Some(date_range_batches(args.start, args.end, args.batch_days))
    /\ UNCHANGED <<cache, last, prev, ncalls, args>>

SpecBatches == InitBatches /\ [][RunBatches]_vars

InitParse ==
    /\ Idle
    /\ args \in ParseInputs
    /\ result = None

RunParse ==
    /\ result = None
    /\ result' = Some(parse_cenace_response(args))
    /\ UNCHANGED <<cache, last, prev, ncalls, args>>

SpecParse == InitParse /\ [][RunParse]_vars

InitQuality ==
    /\ Idle
    /\ args \in QualityInputs
    /\ result = None

RunQuality ==
    /\ result = None
    /\ result' = Some(quality_report(args))
    /\ UNCHANGED <<cache, last, prev, ncalls, args>>

SpecQuality == InitQuality /\ [][RunQuality]_vars

----------------------------------------------------------------------------
(* Properties *)

Timestamps(df) == {df[i].timestamp : i \in 1..Len(df)}

SameCall(x, y) ==
    /\ x.op = y.op /\ x.system = y.system /\ x.a = y.a /\ x.b = y.b
    /\ x.batch_days = y.batch_days

FailedOutcomes == {"status", "json", "parse"}

(* C1: for start < end and batch_days >= 1, _date_range_batches yields at   *)
(* least one interval; the first begins at start, the last ends at end,     *)
(* each interval ends where the next begins, is not empty and is at most    *)
(* batch_days days long.                                                    *)
C1_BatchesPartitionRange ==
    \A bs \in result :
      args.start < args.end =>
        /\ Len(bs) >= 1
        /\ bs[1][1] = args.start
        /\ bs[Len(bs)][2] = args.end
        /\ \A i \in 1..Len(bs) :
             /\ bs[i][1] < bs[i][2]
             /\ bs[i][2] - bs[i][1] <= args.batch_days * Day
        /\ \A i \in 1..(Len(bs) - 1) : bs[i][2] = bs[i + 1][1]

(* a range cut into several batches, the last one shorter than batch_days *)
C1_Witness ==
    \E bs \in result :
      /\ args.start < args.end
      /\ Len(bs) >= 2
      /\ bs[Len(bs)][2] - bs[Len(bs)][1] < args.batch_days * Day

(* C2: no call of fetch_cenace or load_demand raises, and load_demand calls *)
(* fetch_cenace for every batch of its range, whatever the network does.    *)
C2_FailuresNeverRaise ==
    last.op # "none" => ~last.raised /\ Len(last.log) = Len(last.batches)

(* C3: a load_demand call that repeats the arguments of the load_demand call *)
(* before it, and finds a readable cache entry for every batch, sends no     *)
(* request and returns the frame the call before it returned.                *)
C3_WarmRepeatIsIdempotent ==
    (last.op = "load" /\ SameCall(last, prev) /\ last.warm) =>
      /\ last.net = 0
      /\ ~last.raised
      /\ last.df = prev.df

(* the first call filled the cache for two batches from the network *)
C3_Witness ==
    /\ last.op = "load" /\ SameCall(last, prev) /\ last.warm
    /\ Len(last.batches) = 2
    /\ Len(last.parts) = 2
    /\ last.net = 0
    /\ last.df # EmptyFrame

(* C4: the cache entry a call returns on a hit was written by a call with   *)
(* the same system, range_start and range_end.                              *)
C4_HitReadsOwnEntry ==
    \A i \in 1..Len(last.log) :
      LET e == last.log[i]
      IN  e.outcome = "hit" =>
            \A f \in e.before : f.writer = <<e.system, e.a, e.b>>

(* C5: the frame load_demand returns has strictly increasing timestamps,    *)
(* holds exactly the timestamps of the non-empty batch results, and         *)
(* quality_report counts no duplicate in it (None when it is empty).        *)
C5_AssembledSeriesIsStrictlyIncreasing ==
    (last.op = "load" /\ ~last.raised) =>
      /\ \A i \in 1..(Len(last.df) - 1) : last.df[i].timestamp < last.df[i + 1].timestamp
      /\ Timestamps(last.df) = UNION {Timestamps(last.parts[k]) : k \in 1..Len(last.parts)}
      /\ quality_report(last.df).duplicates =
           (IF last.df = EmptyFrame THEN None ELSE Some(0))

(* two batch results hold the same timestamp with different demand values *)
C5_Witness ==
    /\ last.op = "load" /\ ~last.raised
    /\ Len(last.parts) = 2
    /\ \E i \in 1..Len(last.parts[1]), j \in 1..Len(last.parts[2]) :
         /\ last.parts[1][i].timestamp = last.parts[2][j].timestamp
         /\ last.parts[1][i].demand_mw # last.parts[2][j].demand_mw

(* C6: after a cache miss and a 200 response that parses, every point the   *)
(* call returns lies in [range_start, range_end), and the entry it writes   *)
(* holds the points it returns.                                             *)
C6_FetchedSeriesWithinRange ==
    \A i \in 1..Len(last.log) :
      LET e == last.log[i]
      IN  e.outcome = "ok" =>
            /\ \A k \in 1..Len(e.df) : e.a <= e.df[k].timestamp /\ e.df[k].timestamp < e.b
            /\ e.write = "ok" =>
                 \E f \in e.after : f.readable /\ f.table = points(e.df)

(* a response with rows outside the range was filtered, written and returned *)
C6_Witness ==
    \E i \in 1..Len(last.log) :
      LET e == last.log[i]
      IN  /\ e.outcome = "ok" /\ e.write = "ok"
          /\ e.df # EmptyFrame
          /\ Len(e.df) < 3

WellFormed(r) ==
    /\ DOMAIN r = {"fecha", "hora", "demanda"}
    /\ r.fecha \in DOMAIN FechaTable
    /\ r.hora \in DOMAIN IntTable
    /\ r.demanda \in DOMAIN FloatTable

ExpectedPoint(r) ==
    Point(FechaTable[r.fecha] * Day + (IntTable[r.hora] - 1) * Hour, FloatTable[r.demanda])

(* C7: _parse_cenace_response does not raise on a Resultados list, whatever *)
(* its records, and every well-formed record is in the output with          *)
(* timestamp fecha + (hora - 1) hours.                                      *)
C7_MalformedRecordsAreDropped ==
    \A out \in result :
      "Resultados" \in DOMAIN args =>
        LET rs == args["Resultados"]
            expected == {ExpectedPoint(rs[i]) : i \in {k \in 1..Len(rs) : WellFormed(rs[k])}}
        IN  /\ ~out.raised
            /\ expected \subseteq {points(out.df)[i] : i \in 1..Len(out.df)}

NonNull(x) == \E n \in x : n \in Nat

(* C8: quality_report gives rows = 0 and None for the other fields exactly  *)
(* when the frame is empty; otherwise every field is an integer, rows is    *)
(* the number of records, duplicates the number of records whose timestamp  *)
(* occurred earlier, and time_gaps the number of adjacent pairs more than   *)
(* 65 minutes apart.                                                        *)
C8_QualityReportCounts ==
    \A q \in result :
      LET n == Len(args)
          repeated == {i \in 1..n : \E j \in 1..n : j < i /\ args[j].timestamp = args[i].timestamp}
          wide == {i \in 1..(n - 1) : args[i + 1].timestamp - args[i].timestamp >= GapTolerance + 1}
      IN  /\ (n = 0) <=> (q.rows = 0)
          /\ (n = 0) <=> (q.nan_values = None /\ q.negatives = None
                            /\ q.duplicates = None /\ q.time_gaps = None)
          /\ n > 0 =>
               /\ q.rows = n
               /\ NonNull(q.nan_values) /\ NonNull(q.negatives)
               /\ q.duplicates = Some(Cardinality(repeated))
               /\ q.duplicates = Some(n - Cardinality(Timestamps(args)))
               /\ q.time_gaps = Some(Cardinality(wide))

(* a frame with a step of exactly 65 minutes, not counted, and a step of    *)
(* 66 minutes, counted                                                      *)
C8_Witness ==
    \E q \in result :
      /\ Len(args) = 3
      /\ args[2].timestamp - args[1].timestamp = GapTolerance
      /\ args[3].timestamp - args[2].timestamp > GapTolerance
      /\ q.time_gaps = Some(1)

(* C9 as stated: no call of fetch_cenace changes the cache when an entry    *)
(* exists for its key, readable or not.                                     *)
C9_ExistingEntryNeverRewritten ==
    \A i \in 1..Len(last.log) :
      LET e == last.log[i]
      IN  e.before # None => ~e.changed

(* C9 amended: no call of fetch_cenace changes the cache when a readable    *)
(* entry exists for its key; the call returns that entry and sends no       *)
(* request.                                                                 *)
C9_ReadableEntryNeverRewritten ==
    \A i \in 1..Len(last.log) :
      LET e == last.log[i]
      IN  (\E f \in e.before : f.readable) =>
            /\ ~e.changed
            /\ e.after = e.before
            /\ e.net = 0

(* a second call on the key of an entry that the first call wrote *)
C9_Witness ==
    /\ ncalls = 2
    /\ \E i \in 1..Len(last.log) :
         LET e == last.log[i]
         IN  /\ \E f \in e.before : f.readable
             /\ e.outcome = "hit"

(* C10: a call that ends in a status other than 200, an undecodable body or *)
(* a parse error leaves the cache as it was and no readable entry under its *)
(* key, so that the same call made next sends a request; only a call that   *)
(* got a 200 response that parsed changes the cache, and it writes its      *)
(* entry also when the filtered frame is empty.                             *)
C10_OnlyParsedResponsesAreCached ==
    /\ \A i \in 1..Len(last.log) :
         LET e == last.log[i]
         IN  /\ e.outcome \in FailedOutcomes =>
                  ~e.changed /\ ~(\E f \in e.after : f.readable)
             /\ e.changed => e.outcome = "ok"
             /\ (e.outcome = "ok" /\ e.write = "ok") =>
                  \E f \in e.after : f.readable /\ f.table = points(e.df)
    /\ (last.op = "fetch" /\ SameCall(last, prev) /\ prev.outcome \in FailedOutcomes) =>
         last.net >= 1

(* a call that failed, then the same call answered by a response that       *)
(* parses and has no row in the range: an empty entry is written            *)
C10_Witness ==
    /\ last.op = "fetch" /\ SameCall(last, prev) /\ prev.outcome \in FailedOutcomes
    /\ last.outcome = "ok" /\ last.df = EmptyFrame
    /\ \E f \in last.log[1].after : f.readable /\ f.table = <<>>

====
